---- MODULE Spec2Model ----
(***************************************************************************)
(* Model of AzureMessageBusNode.execute                                    *)
(* (src/nodes/AzureMessageBusNode/AzureMessageBusNode.node.ts).            *)
(*                                                                         *)
(* One invocation of execute is a sequence of steps, one per awaited bus   *)
(* call or per catch/finally block.  The host may run the node again with  *)
(* the same parameters once an invocation has ended; the bus destination   *)
(* persists across invocations, everything else is local to one.           *)
(* Every bus call may fail (the SDK rejects the promise or throws).        *)
(***************************************************************************)
EXTENDS Integers, Sequences, FiniteSets, TLC

\* ---- bounds of the model ------------------------------------------------
MaxItems == 3        \* input items of one send invocation: 0..MaxItems
MaxQueue == 2        \* messages initially present on the destination
MaxFetch == 2        \* values of the maxMessages parameter: 1..MaxFetch

Bodies == {"a", "b"}
Ids == 1..MaxQueue
NoIndex == -1        \* an error without context.itemIndex

VARIABLES
    cfg,          \* parameters and input of this invocation
    pc,           \* position of the invocation
    itemIndex,    \* loop variable of the send loop (0-based)
    messageBody,  \* body resolved for the current item
    returnData,   \* result records built so far
    error,        \* the exception in flight, if any
    messages,     \* messages fetched by peekMessages / receiveMessages
    msgIdx,       \* position of the post-processing loop (1-based)
    output,       \* what execute returned to the host
    hostError,    \* what execute threw to the host
    calls,        \* bus and host-parameter calls of this invocation, in order
    status,       \* destination: state of every message
    body,         \* destination: body of every message
    prevPeek      \* the previous invocation, when it was a returned peek

vars == <<cfg, pc, itemIndex, messageBody, returnData, error, messages, msgIdx,
          output, hostError, calls, status, body, prevPeek>>

\* ---- values -------------------------------------------------------------
NoError == [kind |-> "none", message |-> <<>>, itemIndex |-> NoIndex]
NoPeek == [valid |-> FALSE, result |-> <<>>]
QueueOrTopic == "queue1"

\* an error thrown by the SDK or by the host's parameter resolution
SdkError(call) ==
    [kind |-> "Error", message |-> <<call, "failed">>, itemIndex |-> NoIndex]

\* new NodeOperationError(node, error, { itemIndex })
NodeOperationErrorItem(err, idx) ==
    [kind |-> "NodeOperationError", message |-> err.message, itemIndex |-> idx]

\* `Erro ao executar a operação '${operation}': ${error.message}`
OperationMessage(operation, err) ==
    <<"Erro ao executar a operacao", operation>> \o err.message

\* new NodeOperationError(node, message): no context, hence no itemIndex
NodeOperationErrorMsg(msg) ==
    [kind |-> "NodeOperationError", message |-> msg, itemIndex |-> NoIndex]

Call(name, b, m, ok) == [call |-> name, body |-> b, msg |-> m, ok |-> ok]

\* ---- parameters and input ----------------------------------------------
ItemLists == UNION {[1..n -> Bodies] : n \in 0..MaxItems}

SendConfigs ==
    {[operation |-> "send", subscriptionName |-> "", continueOnFail |-> c,
      items |-> it, maxMessages |-> 1, postProcess |-> "complete",
      receiveMode |-> "receiveAndComplete"] :
        c \in BOOLEAN, it \in ItemLists}

ReceiveConfigs ==
    {[operation |-> "receive", subscriptionName |-> s, continueOnFail |-> FALSE,
      items |-> <<>>, maxMessages |-> m, postProcess |-> p,
      receiveMode |-> r] :
        s \in {"", "sub1"}, m \in 1..MaxFetch,
        p \in {"complete", "abandon", "deadLetter", "none"},
        r \in {"receiveAndComplete", "peek"}}

OtherConfigs ==
    {[operation |-> "other", subscriptionName |-> "", continueOnFail |-> FALSE,
      items |-> <<>>, maxMessages |-> 1, postProcess |-> "complete",
      receiveMode |-> "receiveAndComplete"]}

Configs == SendConfigs \cup ReceiveConfigs \cup OtherConfigs

\* ---- the destination (the bus service behind the SDK) -------------------
RECURSIVE IdsWith(_, _)
\* the ids from k upward whose state is st, in queue order
IdsWith(st, k) ==
    IF k > MaxQueue THEN <<>>
    ELSE IF status[k] = st THEN <<k>> \o IdsWith(st, k + 1)
    ELSE IdsWith(st, k + 1)

Available == IdsWith("available", 1)

Min(a, b) == IF a < b THEN a ELSE b

Prefix(s, n) == SubSeq(s, 1, Min(n, Len(s)))

BodiesOf(ms) == [k \in 1..Len(ms) |-> body[ms[k]]]

\* ---- result records -----------------------------------------------------
\* mutant: the record carries the 1-based position
SendSuccessRecordOffByOne(i, b) ==
    [success |-> TRUE, itemIndex |-> i + 1, messageSent |-> b]

SendSuccessRecord(i, b) ==
    [success |-> TRUE, itemIndex |-> i, messageSent |-> b]

SendFailureRecord(i, err) ==
    [success |-> FALSE, itemIndex |-> i, error |-> err.message]

ReceiveRecord(sub, ms) ==
    [success |-> TRUE, operation |-> "receive", queueOrTopic |-> QueueOrTopic,
     subscriptionName |-> sub, messagesReceived |-> BodiesOf(ms)]

\* ---- initial state ------------------------------------------------------
Fresh(c) ==
    /\ cfg = c
    /\ pc = "start"
    /\ itemIndex = 0
    /\ messageBody = ""
    /\ returnData = <<>>
    /\ error = NoError
    /\ messages = <<>>
    /\ msgIdx = 1
    /\ output = <<>>
    /\ hostError = NoError
    /\ calls = <<>>

Init ==
    /\ \E c \in Configs : Fresh(c)
    /\ \E q \in 0..MaxQueue :
          /\ status = [id \in Ids |-> IF id <= q THEN "available" ELSE "absent"]
          /\ body \in {f \in [Ids -> Bodies] : \A id \in Ids : id > q => f[id] = "a"}
    /\ prevPeek = NoPeek

Bus == <<status, body>>
Loop == <<itemIndex, messageBody>>
Fetch == <<messages, msgIdx>>
Host == <<output, hostError>>

\* the branch of the if / else-if chain taken after the client is built
Dispatch(operation) ==
    IF operation = "send" THEN "createSender"
    ELSE IF operation = "receive" THEN "createReceiver"
    ELSE "finally"

\* lines 166-175: parameters, new ServiceBusClient(connectionString)
Construct ==
    /\ pc = "start"
    /\ \E ok \in BOOLEAN :
          /\ calls' = Append(calls, Call("newClient", "", 0, ok))
          /\ IF ok
             THEN /\ pc' = Dispatch(cfg.operation)
                  /\ hostError' = hostError
             ELSE /\ pc' = "thrown"
                  /\ hostError' = SdkError("newClient")
    /\ UNCHANGED <<cfg, Loop, returnData, error, Fetch, output, Bus, prevPeek>>

\* a failing step inside the outer try: the exception is in flight
Raise(err) ==
    /\ error' = err
    /\ pc' = "catch"

\* lines 178-180: getInputData, sbClient.createSender(queueOrTopic)
CreateSender ==
    /\ pc = "createSender"
    /\ \E ok \in BOOLEAN :
          /\ calls' = Append(calls, Call("createSender", "", 0, ok))
          /\ IF ok
             THEN pc' = "loop" /\ error' = error
             ELSE Raise(SdkError("createSender"))
    /\ itemIndex' = 0
    /\ UNCHANGED <<cfg, messageBody, returnData, Fetch, Host, Bus, prevPeek>>

\* the for loop's condition, line 182
LoopCondition(i, items) == i < Len(items)

\* the item of the 0-based index i
ItemAt(items, i) == items[i + 1]

\* lines 182-185: this.getNodeParameter('messageBody', itemIndex)
ResolveBody ==
    /\ pc = "loop"
    /\ LoopCondition(itemIndex, cfg.items)
    /\ \E ok \in BOOLEAN :
          /\ calls' = Append(calls, Call("messageBody", "", itemIndex, ok))
          /\ IF ok
             THEN /\ messageBody' = ItemAt(cfg.items, itemIndex)
                  /\ pc' = "send"
                  /\ error' = error
             ELSE /\ messageBody' = messageBody
                  /\ pc' = "itemCatch"
                  /\ error' = SdkError("messageBody")
    /\ UNCHANGED <<cfg, itemIndex, returnData, Fetch, Host, Bus, prevPeek>>

\* lines 188-202: sender.sendMessages({ body: messageBody }), success record
SendMessage ==
    /\ pc = "send"
    /\ \E ok \in BOOLEAN :
          /\ calls' = Append(calls, Call("sendMessages", messageBody, itemIndex, ok))
          /\ IF ok
             THEN /\ returnData' = Append(returnData,
                                          SendSuccessRecord(itemIndex, messageBody))
                  /\ itemIndex' = itemIndex + 1
                  /\ pc' = "loop"
                  /\ error' = error
             ELSE /\ returnData' = returnData
                  /\ itemIndex' = itemIndex
                  /\ pc' = "itemCatch"
                  /\ error' = SdkError("sendMessages")
    /\ UNCHANGED <<cfg, messageBody, Fetch, Host, Bus, prevPeek>>

\* mutant: the per-item catch never recovers
ContinueOnFailNever(c) == FALSE

\* mutant: the per-item catch always recovers
ContinueOnFailAlways(c) == TRUE

\* this.continueOnFail(), line 205
ContinueOnFail(c) == c.continueOnFail

\* lines 203-216: the per-item catch
ItemCatch ==
    /\ pc = "itemCatch"
    /\ IF ContinueOnFail(cfg)
       THEN /\ returnData' = Append(returnData, SendFailureRecord(itemIndex, error))
            /\ itemIndex' = itemIndex + 1
            /\ error' = NoError
            /\ pc' = "loop"
       ELSE /\ Raise(NodeOperationErrorItem(error, itemIndex))
            /\ UNCHANGED <<returnData, itemIndex>>
    /\ UNCHANGED <<cfg, messageBody, Fetch, Host, calls, Bus, prevPeek>>

\* line 220: sender.close(), reached when the loop ends normally
SenderClose ==
    /\ pc = "loop"
    /\ ~LoopCondition(itemIndex, cfg.items)
    /\ \E ok \in BOOLEAN :
          /\ calls' = Append(calls, Call("sender.close", "", 0, ok))
          /\ IF ok
             THEN pc' = "finally" /\ error' = error
             ELSE Raise(SdkError("sender.close"))
    /\ UNCHANGED <<cfg, Loop, returnData, Fetch, Host, Bus, prevPeek>>

\* mutant: the peek branch is never taken
IsPeekNever(receiveMode) == FALSE

\* line 227: receiveMode === 'peek'
IsPeek(receiveMode) == receiveMode = "peek"

\* lines 222-230 and 234-236: receive parameters, sbClient.createReceiver;
\* the subscription is passed only when it is not empty
CreateReceiver ==
    /\ pc = "createReceiver"
    /\ \E ok \in BOOLEAN :
          /\ calls' = Append(calls,
                             Call("createReceiver", cfg.subscriptionName, 0, ok))
          /\ IF ok
             THEN /\ pc' = IF IsPeek(cfg.receiveMode) THEN "peek" ELSE "receive"
                  /\ error' = error
             ELSE Raise(SdkError("createReceiver"))
    /\ UNCHANGED <<cfg, Loop, returnData, Fetch, Host, Bus, prevPeek>>

\* line 231: receiver.peekMessages(maxMessages); the destination is not changed
PeekMessages ==
    /\ pc = "peek"
    /\ \E ok \in BOOLEAN :
          /\ calls' = Append(calls, Call("peekMessages", "", cfg.maxMessages, ok))
          /\ IF ok
             THEN /\ messages' = Prefix(Available, cfg.maxMessages)
                  /\ pc' = "receiverClose"
                  /\ error' = error
             ELSE /\ messages' = messages
                  /\ Raise(SdkError("peekMessages"))
    /\ UNCHANGED <<cfg, Loop, returnData, msgIdx, Host, Bus, prevPeek>>

\* line 237: receiver.receiveMessages(maxMessages, { maxWaitTimeInMs });
\* the bus hands out between 0 and maxMessages available messages and locks them
ReceiveMessages ==
    /\ pc = "receive"
    /\ \E ok \in BOOLEAN :
          /\ calls' = Append(calls, Call("receiveMessages", "", cfg.maxMessages, ok))
          /\ IF ok
             THEN /\ \E k \in 0..Min(cfg.maxMessages, Len(Available)) :
                        /\ messages' = Prefix(Available, k)
                        /\ status' = [id \in Ids |->
                                        IF \E j \in 1..k : Available[j] = id
                                        THEN "locked" ELSE status[id]]
                  /\ pc' = "post"
                  /\ error' = error
             ELSE /\ messages' = messages
                  /\ status' = status
                  /\ Raise(SdkError("receiveMessages"))
    /\ msgIdx' = 1
    /\ UNCHANGED <<cfg, Loop, returnData, Host, body, prevPeek>>

\* mutant: abandon completes the message
SettleCallAbandonCompletes(postProcess) ==
    IF postProcess = "complete" THEN "completeMessage"
    ELSE IF postProcess = "abandon" THEN "completeMessage"
    ELSE IF postProcess = "deadLetter" THEN "deadLetterMessage"
    ELSE ""

\* lines 239-245: the settlement call chosen by postProcess ("" when none matches)
SettleCall(postProcess) ==
    IF postProcess = "complete" THEN "completeMessage"
    ELSE IF postProcess = "abandon" THEN "abandonMessage"
    ELSE IF postProcess = "deadLetter" THEN "deadLetterMessage"
    ELSE ""

\* what the bus does with a message on a settlement call
Settled(call) ==
    IF call = "completeMessage" THEN "completed"
    ELSE IF call = "abandonMessage" THEN "available"
    ELSE "deadLettered"

\* lines 238-246: one iteration of the post-processing loop
PostProcess ==
    /\ pc = "post"
    /\ msgIdx <= Len(messages)
    /\ LET m == messages[msgIdx]
           c == SettleCall(cfg.postProcess)
       IN IF c = ""
          THEN /\ msgIdx' = msgIdx + 1
               /\ UNCHANGED <<calls, status, pc, error>>
          ELSE \E ok \in BOOLEAN :
                  /\ calls' = Append(calls, Call(c, body[m], m, ok))
                  /\ IF ok
                     THEN /\ status' = [status EXCEPT ![m] = Settled(c)]
                          /\ msgIdx' = msgIdx + 1
                          /\ UNCHANGED <<pc, error>>
                     ELSE /\ Raise(SdkError(c))
                          /\ UNCHANGED <<status, msgIdx>>
    /\ UNCHANGED <<cfg, Loop, returnData, messages, Host, body, prevPeek>>

\* lines 232 and 247: receiver.close(); lines 249-257: the result record
ReceiverClose ==
    /\ \/ pc = "receiverClose"
       \/ pc = "post" /\ msgIdx > Len(messages)
    /\ \E ok \in BOOLEAN :
          /\ calls' = Append(calls, Call("receiver.close", "", 0, ok))
          /\ IF ok
             THEN /\ returnData' = Append(returnData,
                                ReceiveRecord(cfg.subscriptionName, messages))
                  /\ pc' = "finally"
                  /\ error' = error
             ELSE /\ returnData' = returnData
                  /\ Raise(SdkError("receiver.close"))
    /\ UNCHANGED <<cfg, Loop, Fetch, Host, Bus, prevPeek>>

\* mutant: the client is closed at the end of the try block, not in a finally
CatchNoFinally ==
    /\ pc = "catch"
    /\ error' = NodeOperationErrorMsg(OperationMessage(cfg.operation, error))
    /\ hostError' = error'
    /\ pc' = "thrown"
    /\ UNCHANGED <<cfg, Loop, returnData, Fetch, output, calls, Bus, prevPeek>>

\* lines 259-260: the outer catch wraps the exception in a new error
Catch ==
    /\ pc = "catch"
    /\ error' = NodeOperationErrorMsg(OperationMessage(cfg.operation, error))
    /\ pc' = "finally"
    /\ UNCHANGED <<cfg, Loop, returnData, Fetch, Host, calls, Bus, prevPeek>>

\* what leaves a try/catch/finally whose finally block threw or not:
\* an exception thrown by the finally block replaces the one in flight
Completion(inflight, closeOk) ==
    IF ~closeOk THEN SdkError("client.close") ELSE inflight

\* lines 261-265: finally { await sbClient.close() }, return [returnData]
ClientClose ==
    /\ pc = "finally"
    /\ \E ok \in BOOLEAN :
          /\ calls' = Append(calls, Call("client.close", "", 0, ok))
          /\ LET e == Completion(error, ok)
             IN IF e = NoError
                THEN /\ output' = <<returnData>>
                     /\ hostError' = hostError
                     /\ pc' = "returned"
                ELSE /\ output' = output
                     /\ hostError' = e
                     /\ pc' = "thrown"
    /\ UNCHANGED <<cfg, Loop, returnData, error, Fetch, Bus, prevPeek>>

Ended == pc \in {"returned", "thrown"}

\* observer: the invocation that just ended was a peek that returned
PeekReturned ==
    /\ pc = "returned"
    /\ cfg.operation = "receive"
    /\ cfg.receiveMode = "peek"

\* the host runs the node again with the same parameters and input; the
\* locks of the ended invocation have expired
Invoke ==
    /\ Ended
    /\ cfg' = cfg
    /\ pc' = "start"
    /\ itemIndex' = 0
    /\ messageBody' = ""
    /\ returnData' = <<>>
    /\ error' = NoError
    /\ messages' = <<>>
    /\ msgIdx' = 1
    /\ output' = <<>>
    /\ hostError' = NoError
    /\ calls' = <<>>
    /\ status' = [id \in Ids |-> IF status[id] = "locked" THEN "available"
                                 ELSE status[id]]
    /\ body' = body
    /\ prevPeek' = IF PeekReturned
                   THEN [valid |-> TRUE,
                         result |-> output[1][1].messagesReceived]
                   ELSE NoPeek

\* ---- observers over the call log ----------------------------------------
CallsOf(names) == SelectSeq(calls, LAMBDA c : c.call \in names)

Count(name) == Len(CallsOf({name}))

ItemCalls == {"messageBody", "sendMessages"}
SettleCalls == {"completeMessage", "abandonMessage", "deadLetterMessage"}

NoFault == \A k \in 1..Len(calls) : calls[k].ok

\* item i (0-based) failed in body resolution or in transmission
ItemFailed(i) ==
    \E k \in 1..Len(calls) :
        /\ calls[k].call \in ItemCalls
        /\ calls[k].msg = i
        /\ ~calls[k].ok

FailedItems == {i \in 0..(Len(cfg.items) - 1) : ItemFailed(i)}

\* every failed call so far is a body resolution or a transmission
OnlyItemFaults ==
    \A k \in 1..Len(calls) : ~calls[k].ok => calls[k].call \in ItemCalls

Opened(create) ==
    \E k \in 1..Len(calls) : calls[k].call = create /\ calls[k].ok

SendMode == cfg.operation = "send"
NItems == Len(cfg.items)

\* ---- C1 ------------------------------------------------------------------
\* C1: a send invocation in which no body resolution and no transmission
\* fails builds, item after item, the records {success: true, itemIndex: i,
\* messageSent: body of item i}, hands the bodies to the sender in input
\* order, and returns exactly N such records; with no fault at all it returns.
C1_SendAllSucceed ==
    (SendMode /\ FailedItems = {}) =>
        LET sent == CallsOf({"sendMessages"})
        IN /\ \A k \in 1..Len(returnData) :
                 returnData[k] = [success |-> TRUE, itemIndex |-> k - 1,
                                  messageSent |-> cfg.items[k]]
           /\ \A k \in 1..Len(sent) :
                 sent[k].body = cfg.items[k] /\ sent[k].msg = k - 1
           /\ pc = "returned" =>
                 /\ output = <<returnData>>
                 /\ Len(output[1]) = NItems
                 /\ Len(sent) = NItems
           /\ (Ended /\ NoFault) => pc = "returned"

C1_Witness ==
    /\ SendMode
    /\ pc = "returned"
    /\ NItems = 3
    /\ cfg.items[1] # cfg.items[2]
    /\ NoFault
    /\ Len(output[1]) = 3

\* ---- C2 ------------------------------------------------------------------
\* C2: with continue-on-failure enabled, whatever items fail, the send loop
\* visits every item, the output has N records in input order, the record of
\* a failed item k is {success: false, itemIndex: k, error: message} and the
\* record of every other item i is {success: true, itemIndex: i,
\* messageSent: body of item i}.
C2_ContinueOnFail ==
    (SendMode /\ cfg.continueOnFail) =>
        /\ \A k \in 1..Len(returnData) :
              IF ItemFailed(k - 1)
              THEN /\ returnData[k].success = FALSE
                   /\ returnData[k].itemIndex = k - 1
                   /\ returnData[k].error # <<>>
                   /\ DOMAIN returnData[k] = {"success", "itemIndex", "error"}
              ELSE returnData[k] = [success |-> TRUE, itemIndex |-> k - 1,
                                    messageSent |-> cfg.items[k]]
        /\ (Ended /\ OnlyItemFaults /\ Opened("newClient")) =>
              /\ pc = "returned"
              /\ output = <<returnData>>
              /\ Len(output[1]) = NItems
              /\ \A i \in 0..(NItems - 1) :
                    \E k \in 1..Len(calls) :
                        calls[k].call = "messageBody" /\ calls[k].msg = i

C2_Witness ==
    /\ SendMode
    /\ cfg.continueOnFail
    /\ pc = "returned"
    /\ NItems = 3
    /\ FailedItems = {1}
    /\ \E k \in 1..Len(calls) :
          calls[k].call = "sendMessages" /\ calls[k].msg = 1 /\ ~calls[k].ok
    /\ Len(output[1]) = 3

\* ---- C3 ------------------------------------------------------------------
\* C3: with continue-on-failure disabled, once item k has failed no item
\* after k is resolved or handed to the sender, and the invocation ends with
\* a thrown error and no output records.
C3_AbortOnFirstFailure ==
    (SendMode /\ ~cfg.continueOnFail /\ FailedItems # {}) =>
        /\ \A k \in FailedItems :
              \A j \in 1..Len(calls) :
                  calls[j].call \in ItemCalls => calls[j].msg <= k
        /\ pc # "returned"
        /\ output = <<>>
        /\ Ended => (pc = "thrown" /\ hostError # NoError)

C3_Witness ==
    /\ SendMode
    /\ ~cfg.continueOnFail
    /\ pc = "thrown"
    /\ NItems = 3
    /\ FailedItems = {1}
    /\ Len(returnData) = 1
    /\ output = <<>>

\* ---- C4 ------------------------------------------------------------------
\* C4: with continue-on-failure disabled, when item k fails the error that
\* leaves the try block, and then execute, still carries the item index k.
C4_ItemIndexReachesHost ==
    (SendMode /\ ~cfg.continueOnFail) =>
        \A k \in FailedItems :
            /\ pc = "finally" => error.itemIndex = k
            /\ pc = "thrown" => hostError.itemIndex = k

\* ---- C5 ------------------------------------------------------------------
\* C5: the client is released exactly once in every invocation that opened
\* it, on every exit path, and the release is the last call of the invocation.
C5_ClientReleasedOnceAndLast ==
    /\ Count("client.close") <= 1
    /\ \A k \in 1..Len(calls) :
          calls[k].call = "client.close" => k = Len(calls)
    /\ Count("client.close") = 1 => Opened("newClient")
    /\ (Ended /\ Opened("newClient")) => Count("client.close") = 1

C5_Witness ==
    /\ pc = "thrown"
    /\ cfg.operation = "receive"
    /\ \E k \in 1..Len(calls) :
          calls[k].call \in SettleCalls /\ ~calls[k].ok
    /\ Count("client.close") = 1
    /\ calls[Len(calls)].call = "client.close"

\* ---- C6 ------------------------------------------------------------------
\* C6: every sender or receiver the invocation opened has been closed exactly
\* once when the invocation ends, on every exit path.
C6_HandlesClosedOnce ==
    Ended =>
        /\ Opened("createSender") => Count("sender.close") = 1
        /\ Opened("createReceiver") => Count("receiver.close") = 1

\* ---- C7 ------------------------------------------------------------------
\* C7: when the operation failed and the client release fails too, the error
\* that reaches the host is the operation's error, not the release error.
C7_ReleaseDoesNotMask ==
    (pc = "thrown" /\ error # NoError) => hostError = error

\* ---- C8 ------------------------------------------------------------------
\* the failed calls of the operation that were not recovered per item
Unrecovered ==
    {k \in 1..Len(calls) :
        /\ ~calls[k].ok
        /\ calls[k].call \notin {"newClient", "client.close"}
        /\ ~(calls[k].call \in ItemCalls /\ cfg.continueOnFail)}

\* C8: every fault of the send or receive path that is not recovered per item
\* ends the invocation with one thrown error, whose message names the
\* operation in flight and the underlying error text, and with no output.
C8_FaultsAreOperationTagged ==
    (Ended /\ Unrecovered # {}) =>
        /\ pc = "thrown"
        /\ output = <<>>
        /\ \E k \in Unrecovered :
              hostError.message =
                  <<"Erro ao executar a operacao", cfg.operation,
                    calls[k].call, "failed">>

\* ---- C9 ------------------------------------------------------------------
ReceiveAndSettle ==
    /\ cfg.operation = "receive"
    /\ cfg.receiveMode = "receiveAndComplete"
    /\ cfg.postProcess \in {"complete", "abandon", "deadLetter"}

Configured ==
    CASE cfg.postProcess = "complete" -> "completeMessage"
      [] cfg.postProcess = "abandon" -> "abandonMessage"
      [] cfg.postProcess = "deadLetter" -> "deadLetterMessage"

Position(name) == CHOOSE k \in 1..Len(calls) : calls[k].call = name

\* C9: in a fault-free receiveAndComplete invocation every fetched message
\* gets exactly one post-processing action, the configured one, in fetch
\* order, after the fetch and before the receiver is released, and the one
\* result record lists the bodies of exactly those messages in fetch order.
C9_OneActionPerMessage ==
    (ReceiveAndSettle /\ NoFault) =>
        LET settled == CallsOf(SettleCalls)
        IN /\ Len(settled) <= Len(messages)
           /\ \A k \in 1..Len(settled) :
                 /\ settled[k].call = Configured
                 /\ settled[k].msg = messages[k]
           /\ \A k \in 1..Len(calls) :
                 calls[k].call \in SettleCalls =>
                    /\ Count("receiveMessages") = 1
                    /\ Position("receiveMessages") < k
                    /\ Count("receiver.close") = 1 =>
                          k < Position("receiver.close")
           /\ Count("receiver.close") = 1 => Len(settled) = Len(messages)
           /\ Ended => pc = "returned"
           /\ pc = "returned" =>
                 output = <<<<[success |-> TRUE, operation |-> "receive",
                               queueOrTopic |-> QueueOrTopic,
                               subscriptionName |-> cfg.subscriptionName,
                               messagesReceived |->
                                   [k \in 1..Len(messages) |->
                                       body[messages[k]]]]>>>>

C9_Witness ==
    /\ ReceiveAndSettle
    /\ cfg.postProcess = "abandon"
    /\ NoFault
    /\ pc = "returned"
    /\ Len(messages) = 2
    /\ Len(CallsOf(SettleCalls)) = 2
    /\ body[messages[1]] # body[messages[2]]

\* ---- C10 -----------------------------------------------------------------
PeekMode == cfg.operation = "receive" /\ cfg.receiveMode = "peek"

PeekObserved ==
    /\ CallsOf(SettleCalls) = <<>>
    /\ Count("receiveMessages") = 0
    /\ pc = "returned" =>
          /\ Len(output[1]) = 1
          /\ Len(output[1][1].messagesReceived) <= cfg.maxMessages
          /\ prevPeek.valid =>
                output[1][1].messagesReceived = prevPeek.result

\* C10: in a peek invocation, whatever postProcessAction is, no complete,
\* abandon or dead-letter call is made, no step changes the destination, the
\* result lists at most maxMessages messages, and a peek that follows a peek
\* returns the same messages.
C10_PeekLeavesDestination ==
    [][PeekMode => (status' = status /\ body' = body /\ PeekObserved')]_vars

C10_Witness ==
    /\ PeekMode
    /\ cfg.postProcess = "complete"
    /\ pc = "returned"
    /\ prevPeek.valid
    /\ cfg.maxMessages = 1
    /\ Len(Available) = 2
    /\ Len(output[1][1].messagesReceived) = 1

Next ==
    \/ Construct
    \/ CreateSender
    \/ ResolveBody
    \/ SendMessage
    \/ ItemCatch
    \/ SenderClose
    \/ CreateReceiver
    \/ PeekMessages
    \/ ReceiveMessages
    \/ PostProcess
    \/ ReceiverClose
    \/ Catch
    \/ ClientClose
    \/ Invoke

Spec == Init /\ [][Next]_vars
====
